---------------------------- MODULE Spec2Model ----------------------------
(***************************************************************************)
(* Model of the streaming flight-query front end (src/src/App.js).         *)
(*                                                                         *)
(* Text is modelled as a sequence of one-character strings, so that the    *)
(* regular-expression passes of processText are computed character by      *)
(* character as String.prototype.replace computes them.                    *)
(*                                                                         *)
(* Every call of handleSubmit that passes validation constructs a new      *)
(* EventSource together with the closure variables currentAnswer and       *)
(* currentSql; `sources` is the sequence of those objects in the order     *)
(* of construction.  The React state (question, answer, sqlQuery,          *)
(* loading, streamingSql) is shared by all of them.                        *)
(***************************************************************************)
EXTENDS Naturals, Sequences, FiniteSets

VARIABLES
    question,      \* useState "question"
    answer,        \* useState "answer": the published answer
    sqlQuery,      \* useState "sqlQuery": the published SQL query
    loading,       \* useState "loading"
    streamingSql,  \* useState "streamingSql"
    sources,       \* the EventSource objects created so far, with their closures
    toast,         \* the notification raised by the handler that ran last
    logged,        \* the console.error call of the handler that ran last
    last,          \* the event handled last, when nothing else shows it
    txt,           \* SpecText: the input drawn for processText
    once,          \* SpecText: processText(txt)
    twice,         \* SpecText: processText(processText(txt))
    tpc,           \* SpecText: position of the normalisation run
    view           \* SpecSegment: the segments of the rendered answer

vars == <<question, answer, sqlQuery, loading, streamingSql, sources, toast,
          logged, last, txt, once, twice, tpc, view>>

appVars == <<question, answer, sqlQuery, loading, streamingSql, sources, toast,
             logged, last>>

textVars == <<txt, once, twice, tpc, view>>

-----------------------------------------------------------------------------
(* Bounds of the model.                                                    *)

\* EventSource objects one behaviour may construct.
MaxSessions == 2
\* Well-formed 'answer' / 'sql' fragments one behaviour may deliver in total.
MaxFrags == 2
\* Pieces concatenated into an input text of SpecText.
MaxPieces == 3
\* Parts joined by the separator into an input text of SpecSegment.
MaxParts == 4

-----------------------------------------------------------------------------
(* Characters and text.                                                    *)

\* The characters the regular-expression class \s matches.
WS == {" ", "\n", "\t"}

IsSpace(c) == c \in WS

RECURSIVE Flatten(_)
\* Concatenation of a sequence of texts, in order.
Flatten(ss) == IF ss = <<>> THEN <<>> ELSE Head(ss) \o Flatten(Tail(ss))

\* TRUE iff the literal lit occurs in s at position i.
HasAt(s, i, lit) ==
    /\ i + Len(lit) - 1 <= Len(s)
    /\ SubSeq(s, i, i + Len(lit) - 1) = lit

RECURSIVE FindFrom(_, _, _)
\* The first position >= i at which lit occurs in s, or 0.
FindFrom(s, i, lit) ==
    IF i + Len(lit) - 1 > Len(s) THEN 0
    ELSE IF HasAt(s, i, lit) THEN i
    ELSE FindFrom(s, i + 1, lit)

Contains(s, lit) == FindFrom(s, 1, lit) # 0

ThinkOpen == <<"<", "t", "h", "i", "n", "k", ">">>
ThinkClose == <<"<", "/", "t", "h", "i", "n", "k", ">">>

\* A character class of a regular expression: the characters of `set`, or,
\* when `neg`, every character outside it.
Class(set) == [neg |-> FALSE, set |-> set]
NotClass(set) == [neg |-> TRUE, set |-> set]
InClass(c, cls) == IF cls.neg THEN c \notin cls.set ELSE c \in cls.set

\* TRUE iff the characters of s from position i match the classes of pat.
MatchAt(s, i, pat) ==
    /\ i + Len(pat) - 1 <= Len(s)
    /\ \A m \in 1..Len(pat) : InClass(s[i + m - 1], pat[m])

RECURSIVE InsertSpaceFrom(_, _, _, _)
\* s.replace(/pat/g, ...) where the replacement puts one space after the
\* first k matched characters: matches are found left to right, a match
\* consumes its characters, and the scan resumes after it.
InsertSpaceFrom(s, i, pat, k) ==
    IF i > Len(s) THEN <<>>
    ELSE IF MatchAt(s, i, pat)
         THEN SubSeq(s, i, i + k - 1) \o <<" ">>
                \o SubSeq(s, i + k, i + Len(pat) - 1)
                \o InsertSpaceFrom(s, i + Len(pat), pat, k)
         ELSE <<s[i]>> \o InsertSpaceFrom(s, i + 1, pat, k)

-----------------------------------------------------------------------------
(* processText: the answer normaliser.                                     *)

RECURSIVE StripThinkFrom(_, _)
\* text.replace(/<think>[\s\S]*?<\/think>/g, ''): from each opening tag the
\* lazy quantifier runs to the first closing tag after it; an opening tag
\* with no closing tag after it does not match and is copied.
StripThinkFrom(s, i) ==
    IF i > Len(s) THEN <<>>
    ELSE IF HasAt(s, i, ThinkOpen)
         THEN LET j == FindFrom(s, i + Len(ThinkOpen), ThinkClose)
              IN  IF j = 0
                  THEN <<s[i]>> \o StripThinkFrom(s, i + 1)
                  ELSE StripThinkFrom(s, j + Len(ThinkClose))
         ELSE <<s[i]>> \o StripThinkFrom(s, i + 1)

StripThink(s) == StripThinkFrom(s, 1)

\* text.replace(/([.,!?)])([^\s])/g, '$1 $2')
SpaceAfterPunct(s) ==
    InsertSpaceFrom(s, 1, <<Class({".", ",", "!", "?", ")"}), NotClass(WS)>>, 1)

\* text.replace(/([^\s])\(/g, '$1 (')
SpaceBeforeParen(s) ==
    InsertSpaceFrom(s, 1, <<NotClass(WS), Class({"("})>>, 1)

\* text.replace(/\|([^\s|])/g, '| $1')
SpaceAfterPipe(s) ==
    InsertSpaceFrom(s, 1, <<Class({"|"}), NotClass(WS \cup {"|"})>>, 1)

\* text.replace(/([^\s|])\|/g, '$1 |')
SpaceBeforePipe(s) ==
    InsertSpaceFrom(s, 1, <<NotClass(WS \cup {"|"}), Class({"|"})>>, 1)

\* text.replace(/###([^\s])/g, '### $1')
SpaceAfterHeader(s) ==
    InsertSpaceFrom(s, 1,
        <<Class({"#"}), Class({"#"}), Class({"#"}), NotClass(WS)>>, 3)

\* text.replace(/\*\*([^\s])/g, '** $1')
SpaceAfterBold(s) ==
    InsertSpaceFrom(s, 1, <<Class({"*"}), Class({"*"}), NotClass(WS)>>, 2)

\* text.replace(/([^\s])\*\*/g, '$1 **')
SpaceBeforeBold(s) ==
    InsertSpaceFrom(s, 1, <<NotClass(WS), Class({"*"}), Class({"*"})>>, 1)

processText(text) ==
    SpaceBeforeBold(SpaceAfterBold(SpaceAfterHeader(SpaceBeforePipe(
        SpaceAfterPipe(SpaceBeforeParen(SpaceAfterPunct(StripThink(text))))))))

-----------------------------------------------------------------------------
(* processSqlChunk: the SQL formatter.                                     *)

RECURSIVE CountOf(_, _)
CountOf(s, c) ==
    IF s = <<>> THEN 0
    ELSE (IF Head(s) = c THEN 1 ELSE 0) + CountOf(Tail(s), c)

\* format() of the sql-formatter library raises a parse error on a text it
\* cannot tokenise; the case kept here is a string literal whose closing
\* quote has not arrived.
FormatThrows(s) == CountOf(s, "'") % 2 = 1

RECURSIVE PrettyFrom(_, _, _, _, _)
\* The layout format() gives a text it can tokenise, as far as this
\* alphabet shows it: white space outside string literals is dropped at
\* both ends and reduced to one space between tokens; string literals are
\* kept as they are.
PrettyFrom(s, i, inQuote, gap, out) ==
    IF i > Len(s) THEN out
    ELSE IF ~inQuote /\ IsSpace(s[i])
         THEN PrettyFrom(s, i + 1, inQuote, TRUE, out)
         ELSE PrettyFrom(s, i + 1,
                         IF s[i] = "'" THEN ~inQuote ELSE inQuote,
                         FALSE,
                         (IF gap /\ out # <<>> THEN out \o <<" ">> ELSE out)
                            \o <<s[i]>>)

format(s) == PrettyFrom(s, 1, FALSE, FALSE, <<>>)

\* The outcome of the call format(chunk, ...): an exception, or a value.
TryFormat(chunk) ==
    [raised |-> FormatThrows(chunk),
     value |-> IF FormatThrows(chunk) THEN <<>> ELSE format(chunk)]

\* processSqlChunk without its try / catch: the exception reaches the caller.
processSqlChunkUncaught(chunk) == TryFormat(chunk)

\* try { return format(chunk, ...) } catch (sqlError) { return chunk }
\* The outcome of the call: it returns what format() returned, or the chunk.
processSqlChunk(chunk) ==
    IF TryFormat(chunk).raised
    THEN [raised |-> FALSE, value |-> chunk]
    ELSE TryFormat(chunk)

-----------------------------------------------------------------------------
(* The React state and the EventSource objects.                            *)

\* The mutable state a handler reads and writes, as one record.
State ==
    [question |-> question, answer |-> answer, sqlQuery |-> sqlQuery,
     loading |-> loading, streamingSql |-> streamingSql, sources |-> sources,
     toast |-> "none", logged |-> "none"]

\* new EventSource(...) with let currentAnswer = "", currentSql = "".
\* gotAnswer and gotSql record the contents of the fragments the object was
\* given on each channel, pubAnswer and pubSql what its handler last passed
\* to setAnswer and setSqlQuery.
NewSource ==
    [open |-> TRUE, currentAnswer |-> <<>>, currentSql |-> <<>>,
     gotAnswer |-> <<>>, gotSql |-> <<>>, pubAnswer |-> <<>>, pubSql |-> <<>>]

\* The argument of handleSubmit: handleSubmit() passes undefined.
Undefined == [given |-> FALSE, text |-> <<>>]
Given(t) == [given |-> TRUE, text |-> t]

\* query || question
EffectiveQuery(query, q) ==
    IF query.given /\ query.text # <<>> THEN query.text ELSE q

RECURSIVE TrimLeft(_)
TrimLeft(s) ==
    IF s # <<>> /\ IsSpace(Head(s)) THEN TrimLeft(Tail(s)) ELSE s

RECURSIVE TrimRight(_)
TrimRight(s) ==
    IF s # <<>> /\ IsSpace(s[Len(s)])
    THEN TrimRight(SubSeq(s, 1, Len(s) - 1)) ELSE s

\* String.prototype.trim
Trim(s) == TrimRight(TrimLeft(s))

\* handleSubmit with the validation `!currentQuestion` in place of
\* `!currentQuestion.trim()`.
handleSubmitNoTrim(st, query) ==
    LET currentQuestion == EffectiveQuery(query, st.question)
    IN  IF currentQuestion = <<>>
        THEN [st EXCEPT !.toast = "warning"]
        ELSE [st EXCEPT !.loading = TRUE,
                        !.streamingSql = TRUE,
                        !.answer = <<>>,
                        !.sqlQuery = <<>>,
                        !.sources = Append(@, [open |-> TRUE,
                            currentAnswer |-> <<>>, currentSql |-> <<>>,
                            gotAnswer |-> <<>>, gotSql |-> <<>>,
                            pubAnswer |-> <<>>, pubSql |-> <<>>])]

\* handleSubmit up to the construction of the EventSource and the
\* registration of its handlers.  The constructor raises only on a URL that
\* cannot be parsed, which this fixed URL never is, so the catch block of
\* lines 135-145 is not reached.
handleSubmit(st, query) ==
    LET currentQuestion == EffectiveQuery(query, st.question)
    IN  IF Trim(currentQuestion) = <<>>
        THEN [st EXCEPT !.toast = "warning"]
        ELSE [st EXCEPT !.loading = TRUE,
                        !.streamingSql = TRUE,
                        !.answer = <<>>,
                        !.sqlQuery = <<>>,
                        !.sources = Append(@, NewSource)]

\* event.data.replace(/^data:\s*/, '')
CleanData(p) == [p EXCEPT !.prefix = FALSE]

\* A catch block that gives the stream up on a payload it cannot parse.
ParseErrorFatal(st, i) ==
    [st EXCEPT !.logged = "parse",
               !.sources[i].open = FALSE,
               !.loading = FALSE]

\* catch (parseError) { console.error('Parse error:', ...) }
ParseError(st, i) == [st EXCEPT !.logged = "parse"]

\* `=` in place of `+=`: the buffer keeps the last fragment only.
AppendContentOverwrite(buffer, content) == content

\* currentAnswer += data.content / currentSql += data.content
AppendContent(buffer, content) == buffer \o content

\* An 'answer' branch that normalises the new fragment alone and appends
\* the result to what it published before.
AnswerFragmentChunkwise(st, i, content) ==
    LET buf == st.sources[i].currentAnswer \o content
        processedText == st.sources[i].pubAnswer \o processText(content)
    IN  [st EXCEPT !.sources[i].currentAnswer = buf,
                   !.sources[i].gotAnswer = Append(@, content),
                   !.sources[i].pubAnswer = processedText,
                   !.answer = processedText]

\* The 'answer' branch of onmessage.
AnswerFragment(st, i, content) ==
    LET buf == AppendContent(st.sources[i].currentAnswer, content)
        processedText == processText(buf)
    IN  [st EXCEPT !.sources[i].currentAnswer = buf,
                   !.sources[i].gotAnswer = Append(@, content),
                   !.sources[i].pubAnswer = processedText,
                   !.answer = processedText]

\* A 'sql' branch that formats the buffer before it appends the fragment:
\* what it publishes is one fragment behind the buffer.
SqlFragmentStale(st, i, content) ==
    LET buf == AppendContent(st.sources[i].currentSql, content)
        processedSql == processSqlChunk(st.sources[i].currentSql)
    IN  [st EXCEPT !.sources[i].currentSql = buf,
                   !.sources[i].gotSql = Append(@, content),
                   !.sources[i].pubSql = processedSql.value,
                   !.sqlQuery = processedSql.value]

\* The 'sql' branch of onmessage.  An exception out of processSqlChunk
\* would leave the branch after the assignment to currentSql and before
\* setSqlQuery, and be caught by the catch block of onmessage.
SqlFragment(st, i, content) ==
    LET buf == AppendContent(st.sources[i].currentSql, content)
        processedSql == processSqlChunk(buf)
        appended == [st EXCEPT !.sources[i].currentSql = buf,
                               !.sources[i].gotSql = Append(@, content)]
    IN  IF processedSql.raised
        THEN ParseError(appended, i)
        ELSE [appended EXCEPT !.sources[i].pubSql = processedSql.value,
                              !.sqlQuery = processedSql.value]

\* A handler that takes a type it has no branch for as a payload it cannot
\* parse.
onmessageStrict(st, i, p) ==
    LET cleanData == CleanData(p)
    IN  IF cleanData.form = "empty" THEN st
        ELSE IF cleanData.form = "garbage" THEN ParseError(st, i)
        ELSE IF cleanData.type = "answer"
             THEN AnswerFragment(st, i, cleanData.content)
        ELSE IF cleanData.type = "sql"
             THEN SqlFragment(st, i, cleanData.content)
        ELSE ParseError(st, i)

\* eventSource.onmessage of source i on the payload p.
onmessage(st, i, p) ==
    LET cleanData == CleanData(p)
    IN  IF cleanData.form = "empty" THEN st
        ELSE IF cleanData.form = "garbage" THEN ParseError(st, i)
        ELSE IF cleanData.type = "answer"
             THEN AnswerFragment(st, i, cleanData.content)
        ELSE IF cleanData.type = "sql"
             THEN SqlFragment(st, i, cleanData.content)
        ELSE st

\* An error handler that also clears what was published.
onerrorClearing(st, i) ==
    [st EXCEPT !.logged = "eventsource",
               !.sources[i].open = FALSE,
               !.loading = FALSE,
               !.answer = <<>>,
               !.sqlQuery = <<>>]

\* eventSource.onerror of source i.
onerror(st, i) ==
    [st EXCEPT !.logged = "eventsource",
               !.sources[i].open = FALSE,
               !.loading = FALSE]

\* A 'done' listener that forgets eventSource.close().
ondoneNoClose(st, i) == [st EXCEPT !.loading = FALSE]

\* The 'done' listener of source i.
ondone(st, i) ==
    [st EXCEPT !.sources[i].open = FALSE, !.loading = FALSE]

-----------------------------------------------------------------------------
(* Inputs.                                                                 *)

\* Texts typed into the question field (it is empty at the start).
Questions == {<<" ">>, <<"q">>}

\* The texts of the prompt buttons (the constant `prompts`): none is blank.
Prompts == {<<"q">>}

\* data.content of the 'answer' fragments: a punctuation mark and a letter,
\* which processText separates when the one follows the other.
AnswerContents == {<<".">>, <<"a">>}

\* data.content of the 'sql' fragments: a quote, which alone format() cannot
\* tokenise, and the rest of a statement whose layout format() changes.
SqlContents == {<<"'">>, <<"'", " ", " ", "s">>}

Object(type, content) ==
    [form |-> "object", type |-> type, content |-> content]

Bodies ==
    {Object("answer", c) : c \in AnswerContents}
      \cup {Object("sql", c) : c \in SqlContents}
      \cup {Object("status", <<"a">>)}
      \cup {[form |-> "garbage", type |-> "", content |-> <<>>],
            [form |-> "empty", type |-> "", content |-> <<>>]}

\* The bodies that are also delivered with the "data: " label in front.
LabelledBodies ==
    {Object("answer", <<"a">>),
     [form |-> "garbage", type |-> "", content |-> <<>>],
     [form |-> "empty", type |-> "", content |-> <<>>]}

Envelope(label, d) ==
    [prefix |-> label, form |-> d.form, type |-> d.type,
     content |-> d.content]

\* event.data: a body, with or without the "data: " label in front.
Payloads ==
    {Envelope(FALSE, d) : d \in Bodies}
      \cup {Envelope(TRUE, d) : d \in LabelledBodies}

IsFragment(p) == p.form = "object" /\ p.type \in {"answer", "sql"}

\* What `last` keeps of a message event: the declared type, when it is one
\* the handler has no branch for.  (A fragment shows in the buffers, a
\* payload that does not parse in `logged`.)
Kind(p) ==
    IF p.form = "object" /\ p.type \notin {"answer", "sql"}
    THEN p.type ELSE "none"

\* Fragments delivered so far, over all sources.
TotalFrags ==
    Len(Flatten([i \in 1..Len(sources) |->
                    sources[i].gotAnswer \o sources[i].gotSql]))

TextPieces ==
    {ThinkOpen, ThinkClose, <<"a">>, <<".">>, <<" ">>, <<"(">>, <<"|">>,
     <<"#", "#", "#">>, <<"*", "*">>}

Texts ==
    {Flatten(ps) : ps \in UNION {[1..n -> TextPieces] : n \in 0..MaxPieces}}

-----------------------------------------------------------------------------
(* The application.                                                        *)

\* No segments computed.
NoView == [title |-> <<>>, items |-> <<>>, summary |-> <<>>]

TextIdle ==
    /\ txt = <<>>
    /\ once = <<>>
    /\ twice = <<>>
    /\ tpc = "idle"
    /\ view = NoView

Init ==
    /\ question = <<>>
    /\ answer = <<>>
    /\ sqlQuery = <<>>
    /\ loading = FALSE
    /\ streamingSql = FALSE
    /\ sources = <<>>
    /\ toast = "none"
    /\ logged = "none"
    /\ last = "none"
    /\ TextIdle

\* The state st becomes the state of the application.
Becomes(st) ==
    /\ question' = st.question
    /\ answer' = st.answer
    /\ sqlQuery' = st.sqlQuery
    /\ loading' = st.loading
    /\ streamingSql' = st.streamingSql
    /\ sources' = st.sources
    /\ toast' = st.toast
    /\ logged' = st.logged

\* onChange of the question field: setQuestion(e.target.value).
SetQuestion(v) ==
    /\ v # question
    /\ Becomes([State EXCEPT !.question = v])
    /\ last' = "none"
    /\ UNCHANGED textVars

\* The Submit button (query undefined).  isLoading={loading} disables the
\* button while loading is true; the prompt buttons have no such prop.
Submit ==
    /\ ~loading
    /\ Len(handleSubmit(State, Undefined).sources) <= MaxSessions
    /\ Becomes(handleSubmit(State, Undefined))
    /\ last' = "none"
    /\ UNCHANGED textVars

\* A prompt button: setQuestion(prompt); handleSubmit(prompt).
Prompt(t) ==
    /\ Len(handleSubmit([State EXCEPT !.question = t], Given(t)).sources)
         <= MaxSessions
    /\ Becomes(handleSubmit([State EXCEPT !.question = t], Given(t)))
    /\ last' = "none"
    /\ UNCHANGED textVars

\* The transport delivers a message event with data p to source i.
OnMessage(i, p) ==
    /\ sources[i].open
    /\ IsFragment(p) => TotalFrags < MaxFrags
    /\ Becomes(onmessage(State, i, p))
    /\ last' = Kind(p)
    /\ UNCHANGED textVars

\* The transport signals an error to source i.
OnError(i) ==
    /\ sources[i].open
    /\ Becomes(onerror(State, i))
    /\ last' = "none"
    /\ UNCHANGED textVars

\* The transport delivers the 'done' event to source i.
OnDone(i) ==
    /\ sources[i].open
    /\ Becomes(ondone(State, i))
    /\ last' = "done"
    /\ UNCHANGED textVars

Next ==
    \/ \E v \in Questions : SetQuestion(v)
    \/ Submit
    \/ \E t \in Prompts : Prompt(t)
    \/ \E i \in 1..Len(sources) : \E p \in Payloads : OnMessage(i, p)
    \/ \E i \in 1..Len(sources) : OnError(i)
    \/ \E i \in 1..Len(sources) : OnDone(i)

Spec == Init /\ [][Next]_vars

-----------------------------------------------------------------------------
(* processText on its own: an input text is drawn and normalised twice.    *)

InitText ==
    /\ question = <<>>
    /\ answer = <<>>
    /\ sqlQuery = <<>>
    /\ loading = FALSE
    /\ streamingSql = FALSE
    /\ sources = <<>>
    /\ toast = "none"
    /\ logged = "none"
    /\ last = "none"
    /\ txt \in Texts
    /\ once = <<>>
    /\ twice = <<>>
    /\ tpc = "start"
    /\ view = NoView

Normalize ==
    /\ tpc = "start"
    /\ once' = processText(txt)
    /\ tpc' = "once"
    /\ UNCHANGED <<txt, twice, view>>
    /\ UNCHANGED appVars

Renormalize ==
    /\ tpc = "once"
    /\ twice' = processText(once)
    /\ tpc' = "twice"
    /\ UNCHANGED <<txt, once, view>>
    /\ UNCHANGED appVars

NextText == Normalize \/ Renormalize

SpecText == InitText /\ [][NextText]_vars

-----------------------------------------------------------------------------
(* The response segmenter (spec.md, 4.4), applied to a rendered answer.    *)

\* The separator token between the parts of an answer.
Separator == <<"-", "-", "-">>
\* The heading marker a title part begins with.
HeadingMarker == <<"#">>
\* The item marker: the aeroplane symbol, written @ in this module.
ItemMarker == <<"@">>
\* The summary marker phrase.
SummaryMarker == <<"S", "u", "m", "m", "a", "r", "y">>

RECURSIVE SplitFrom(_, _, _, _)
\* The parts of s from position i on, cur being the part under way.
SplitFrom(s, i, sep, cur) ==
    IF i > Len(s) THEN <<cur>>
    ELSE IF HasAt(s, i, sep)
         THEN <<cur>> \o SplitFrom(s, i + Len(sep), sep, <<>>)
         ELSE SplitFrom(s, i + 1, sep, Append(cur, s[i]))

\* The parts of the text between separators, blank parts left out.
Parts(text) ==
    SelectSeq(SplitFrom(text, 1, Separator, <<>>),
              LAMBDA part : Trim(part) # <<>>)

RECURSIVE StripHeading(_)
\* The text without the heading-marker characters it begins with.
StripHeading(t) ==
    IF HasAt(t, 1, HeadingMarker)
    THEN StripHeading(SubSeq(t, Len(HeadingMarker) + 1, Len(t)))
    ELSE t

IsTitle(part) == HasAt(Trim(part), 1, HeadingMarker)
IsItem(part) == Contains(part, ItemMarker)
IsSummary(part) == Contains(part, SummaryMarker)

\* The first element of a sequence, as a sequence of at most one element.
First(seq) == IF seq = <<>> THEN <<>> ELSE <<Head(seq)>>

RECURSIVE Reverse(_)
Reverse(seq) ==
    IF seq = <<>> THEN <<>> ELSE Append(Reverse(Tail(seq)), Head(seq))

\* A segmenter that lists the items last part first.
segmentReversed(rendered) ==
    [title |-> First([k \in 1..Len(SelectSeq(Parts(rendered), IsTitle)) |->
                  Trim(StripHeading(Trim(
                      SelectSeq(Parts(rendered), IsTitle)[k])))]),
     items |-> Reverse(SelectSeq(Parts(rendered), IsItem)),
     summary |-> First(SelectSeq(Parts(rendered), IsSummary))]

\* segment(rendered_answer): the title, the items and the summary.
segment(rendered) ==
    [title |-> First([k \in 1..Len(SelectSeq(Parts(rendered), IsTitle)) |->
                  Trim(StripHeading(Trim(
                      SelectSeq(Parts(rendered), IsTitle)[k])))]),
     items |-> SelectSeq(Parts(rendered), IsItem),
     summary |-> First(SelectSeq(Parts(rendered), IsSummary))]

\* The texts of a part: blank, a title, two items, a bold summary, a part
\* of no kind, and a title with an item under it.  Each holds the item
\* marker and the summary marker at most once.
SegParts ==
    {<<" ">>,
     <<"#", "#", "#", " ", "T">>,
     <<"\n", "@", " ", "A", "\n">>,
     <<"\n", "@", " ", "B", "\n">>,
     <<"\n", "*", "*">> \o SummaryMarker \o <<":", "*", "*", " ", "A">>,
     <<"x">>,
     <<"#", "#", "#", "T", "\n", "@", " ", "C">>}

RECURSIVE Join(_)
\* The parts with the separator between them.
Join(ps) ==
    IF Len(ps) <= 1 THEN Flatten(ps)
    ELSE Head(ps) \o Separator \o Join(Tail(ps))

SegTexts ==
    {Join(ps) : ps \in UNION {[1..n -> SegParts] : n \in 1..MaxParts}}

InitSegment ==
    /\ question = <<>>
    /\ answer = <<>>
    /\ sqlQuery = <<>>
    /\ loading = FALSE
    /\ streamingSql = FALSE
    /\ sources = <<>>
    /\ toast = "none"
    /\ logged = "none"
    /\ last = "none"
    /\ txt \in SegTexts
    /\ once = <<>>
    /\ twice = <<>>
    /\ tpc = "start"
    /\ view = NoView

\* The rendered answer is segmented for display.
Segmentize ==
    /\ tpc = "once"
    /\ view' = segment(once)
    /\ tpc' = "view"
    /\ UNCHANGED <<txt, once, twice>>
    /\ UNCHANGED appVars

NextSegment == Normalize \/ Segmentize

SpecSegment == InitSegment /\ [][NextSegment]_vars

-----------------------------------------------------------------------------
(* Properties of the application (checked under Spec).                     *)

Sources == 1..Len(sources)

OpenSources == {i \in Sources : sources[i].open}

Blank(t) == Trim(t) = <<>>

\* C1: a submission that opens a new stream cancels every earlier one: the
\* earlier transports are closed by it, and no message delivered to an
\* earlier EventSource changes the published answer or SQL query.
C1_EarlierSessionCancelled ==
    [][/\ Len(sources') > Len(sources)
            => \A i \in Sources : ~sources'[i].open
       /\ \A i \in Sources : \A p \in Payloads :
            (i < Len(sources) /\ OnMessage(i, p))
                => (answer' = answer /\ sqlQuery' = sqlQuery)]_vars

\* C2: in every reachable state at most one EventSource opened by
\* handleSubmit is open.
C2_AtMostOneOpen == Cardinality(OpenSources) <= 1

\* C3: handleSubmit with a blank effective query (empty or white space
\* only) raises the validation warning and opens no transport; loading, the
\* published answer and the published SQL query stay as they were.
C3_BlankQueryRejected ==
    [][(Blank(EffectiveQuery(Undefined, question)) /\ Submit)
          => /\ toast' = "warning"
             /\ sources' = sources
             /\ loading' = loading
             /\ answer' = answer
             /\ sqlQuery' = sqlQuery]_vars

\* C3 witness: a white-space question was rejected while a stream was open
\* and content was on display (the Submit button is enabled: loading is
\* false).
C3_Witness ==
    /\ toast = "warning"
    /\ question = <<" ">>
    /\ ~loading
    /\ answer # <<>>
    /\ OpenSources # {}

\* C4: a message whose payload does not parse as JSON changes nothing: the
\* EventSource stays open, loading keeps its value, and the raw buffers and
\* the published answer and SQL query are what they were, so that the
\* handler treats the fragments that follow as it would have without it.
C4_MalformedPayloadDropped ==
    [][\A i \in Sources : \A p \in {g \in Payloads : g.form = "garbage"} :
          OnMessage(i, p)
              => /\ sources' = sources
                 /\ sources'[i].open
                 /\ loading' = loading
                 /\ answer' = answer
                 /\ sqlQuery' = sqlQuery]_vars

\* C4 witness: a parse error was logged in the middle of a session: the
\* stream is open and loading, with content buffered and published.
C4_Witness ==
    /\ logged = "parse"
    /\ loading
    /\ answer # <<>>
    /\ \E i \in OpenSources : sources[i].currentAnswer # <<>>

\* C5: a transport error ends the session: the EventSource is closed and
\* loading is false, and the published answer and SQL query keep the
\* content accumulated so far.
C5_ErrorKeepsPartialContent ==
    [][\A i \in Sources :
          OnError(i)
              => /\ ~sources'[i].open
                 /\ ~loading'
                 /\ answer' = answer
                 /\ sqlQuery' = sqlQuery]_vars

\* C5 witness: an error was handled with partial content on both channels.
C5_Witness ==
    /\ logged = "eventsource"
    /\ ~loading
    /\ answer # <<>>
    /\ sqlQuery # <<>>
    /\ \E i \in Sources : ~sources[i].open /\ sources[i].currentAnswer # <<>>

\* C6: every transport error signalled to an open stream raises a failure
\* notification to the user.
C6_ErrorNotifiesUser ==
    [][\A i \in Sources : OnError(i) => toast' = "error"]_vars

\* C7: the raw buffer of each channel is the concatenation, in arrival
\* order, of the contents of the fragments received on that channel.
C7_BuffersAreConcatenations ==
    \A i \in Sources :
        /\ sources[i].currentAnswer = Flatten(sources[i].gotAnswer)
        /\ sources[i].currentSql = Flatten(sources[i].gotSql)

\* C7 witness: two different fragments arrived on one channel.
C7_Witness ==
    \E i \in Sources :
        /\ Len(sources[i].gotAnswer) = 2
        /\ sources[i].gotAnswer[1] # sources[i].gotAnswer[2]

\* The application with one fresh EventSource, for a delivery in one piece.
Fresh == [State EXCEPT !.sources = <<NewSource>>]

\* C8: what a session last published on a channel is what the delivery of
\* the whole content as one fragment to a fresh session publishes, however
\* the content was split into fragments.
C8_ChunkingIndependent ==
    \A i \in Sources :
        /\ sources[i].gotAnswer # <<>>
            => sources[i].pubAnswer =
                 AnswerFragment(Fresh, 1, Flatten(sources[i].gotAnswer)).answer
        /\ sources[i].gotSql # <<>>
            => sources[i].pubSql =
                 SqlFragment(Fresh, 1, Flatten(sources[i].gotSql)).sqlQuery

\* C8 witness: a content whose normal form has a space at the split point
\* was delivered in two fragments.
C8_Witness ==
    \E i \in Sources :
        /\ sources[i].gotAnswer = << <<".">>, <<"a">> >>
        /\ sources[i].pubAnswer = <<".", " ", "a">>

\* C11: processSqlChunk never raises to its caller: what a session last
\* published as SQL is format()'s result for its whole buffer, or, where
\* format() raises on that buffer, the buffer itself; each call stands on
\* its own, so a call that fell back does not affect a later one.
C11_FormatOrFallback ==
    \A i \in Sources :
        sources[i].gotSql # <<>>
            => /\ ~processSqlChunk(sources[i].currentSql).raised
               /\ sources[i].pubSql =
                    IF FormatThrows(sources[i].currentSql)
                    THEN sources[i].currentSql
                    ELSE format(sources[i].currentSql)

\* C11 witness: format() raised on the first fragment, and on the longer
\* buffer it succeeded and changed the layout.
C11_Witness ==
    \E i \in Sources :
        /\ Len(sources[i].gotSql) = 2
        /\ FormatThrows(sources[i].gotSql[1])
        /\ ~FormatThrows(sources[i].currentSql)
        /\ sources[i].pubSql = format(sources[i].currentSql)
        /\ sources[i].pubSql # sources[i].currentSql
        /\ sqlQuery = sources[i].pubSql

\* C12: the 'done' event completes the session: its EventSource is closed
\* and loading is false after the listener, and a closed EventSource keeps
\* its buffers and what it published as they are in every later step (it
\* is given no further message).
C12_DoneCompletes ==
    [][/\ \A i \in Sources : OnDone(i) => (~sources'[i].open /\ ~loading')
       /\ \A i \in Sources :
            ~sources[i].open
                => /\ sources'[i] = sources[i]
                   /\ \A p \in Payloads : ~OnMessage(i, p)]_vars

\* C12 witness: 'done' was handled for a session that had published.
C12_Witness ==
    /\ last = "done"
    /\ ~loading
    /\ \E i \in Sources :
            /\ ~sources[i].open
            /\ sources[i].pubAnswer # <<>>
            /\ answer = sources[i].pubAnswer

\* C14: an accepted fragment is followed by a publication that reflects it:
\* the handler of an 'answer' (an 'sql') fragment leaves the published answer
\* (SQL query) equal to processText (processSqlChunk) of the whole raw
\* buffer, the fragment at its end.  (A fragment step is one that adds to
\* gotAnswer or gotSql.)
C14_PublicationFollowsFragment ==
    [][\A i \in Sources :
          /\ Len(sources'[i].gotAnswer) > Len(sources[i].gotAnswer)
                => /\ sources'[i].currentAnswer
                        = sources[i].currentAnswer
                            \o sources'[i].gotAnswer[Len(sources'[i].gotAnswer)]
                   /\ answer' = processText(sources'[i].currentAnswer)
          /\ Len(sources'[i].gotSql) > Len(sources[i].gotSql)
                => /\ sources'[i].currentSql
                        = sources[i].currentSql
                            \o sources'[i].gotSql[Len(sources'[i].gotSql)]
                   /\ sqlQuery'
                        = processSqlChunk(sources'[i].currentSql).value]_vars

\* C14 witness: a session got two 'sql' fragments, and the published SQL
\* query is the formatted whole buffer, which differs from the raw buffer.
C14_Witness ==
    \E i \in Sources :
        /\ Len(sources[i].gotSql) = 2
        /\ sources[i].currentSql = Flatten(sources[i].gotSql)
        /\ sqlQuery = format(sources[i].currentSql)
        /\ sqlQuery # sources[i].currentSql

\* C15: a message that parses and whose type is neither 'answer' nor 'sql'
\* is dropped silently: the buffers and the open state of every EventSource,
\* the published answer and SQL query and loading stay as they were, nothing
\* is logged and no toast is raised.
C15_UnknownTypeDropped ==
    [][\A i \in Sources :
          \A p \in {u \in Payloads : u.form = "object" /\ ~IsFragment(u)} :
              OnMessage(i, p)
                  => /\ sources' = sources
                     /\ answer' = answer
                     /\ sqlQuery' = sqlQuery
                     /\ loading' = loading
                     /\ streamingSql' = streamingSql
                     /\ logged' = "none"
                     /\ toast' = "none"]_vars

\* C15 witness: a 'status' message was just delivered to a stream that had
\* published an answer; the stream is open and loading.
C15_Witness ==
    /\ last = "status"
    /\ loading
    /\ answer # <<>>
    /\ \E i \in OpenSources : sources[i].pubAnswer = answer

\* C16: loading is false only if no EventSource opened by handleSubmit is
\* still open.
C16_LoadingTracksStream == ~loading => OpenSources = {}

-----------------------------------------------------------------------------
(* Properties of the segmenter (checked under SpecSegment).                *)

RECURSIVE InOrderFrom(_, _, _)
\* TRUE iff the texts of segs occur in text from position i on, one after
\* the other in the order of segs.
InOrderFrom(text, i, segs) ==
    IF segs = <<>> THEN TRUE
    ELSE LET j == FindFrom(text, i, Head(segs))
         IN  /\ j # 0
             /\ InOrderFrom(text, j + Len(Head(segs)), Tail(segs))

-----------------------------------------------------------------------------
(* Properties of processText (checked under SpecText).                     *)

\* C9: processText is idempotent: normalising its output gives the output.
C9_Idempotent == tpc = "twice" => twice = once

RECURSIVE VisibleFrom(_, _)
\* The text outside reasoning spans: a closed span is left out with its
\* delimiters, and an opening delimiter with no closing delimiter after it
\* hides itself and everything after it.
VisibleFrom(s, i) ==
    IF i > Len(s) THEN <<>>
    ELSE IF HasAt(s, i, ThinkOpen)
         THEN LET j == FindFrom(s, i + Len(ThinkOpen), ThinkClose)
              IN  IF j = 0 THEN <<>>
                  ELSE VisibleFrom(s, j + Len(ThinkClose))
         ELSE <<s[i]>> \o VisibleFrom(s, i + 1)

\* C10: the output shows no reasoning text: it has no opening delimiter
\* left in it, and it is the normal form of the text outside the reasoning
\* spans, closed or not yet closed.
C10_ReasoningSuppressed ==
    tpc = "once"
        => /\ ~Contains(once, ThinkOpen)
           /\ once = processText(VisibleFrom(txt, 1))

=============================================================================
